---- MODULE Spec2Model ----
(***************************************************************************)
(* Model of src/server.js: the pallet reception backend.  The relational   *)
(* store (tables PalletsEntrada, TareasDescuento, PalletsDescontados and   *)
(* Movimientos) is the only shared state.  Every HTTP handler opens one    *)
(* sql.Transaction at the driver's default isolation level (READ           *)
(* COMMITTED): a statement reads the rows committed when it runs plus the  *)
(* transaction's own writes, a row written by an open transaction is       *)
(* locked against other writers until that transaction ends, and nothing a *)
(* transaction wrote is visible to others before its commit.  Each await   *)
(* on a statement is one step of a request; steps of different requests    *)
(* interleave freely.                                                       *)
(*                                                                         *)
(* Columns Pasillo, Prioridad and FechaHoraProceso are left out: no handler *)
(* branches on them.  FechaHoraIngreso and FechaHoraDescuento are kept for  *)
(* the status report.  Movimientos is kept as a bag of rows, its            *)
(* IDENTITY column is never read by a handler.                             *)
(***************************************************************************)
EXTENDS Integers, FiniteSets, Sequences, Bags, TLC

\* ------------------------------------------------------------------ bounds
MaxPallets == 1
MaxTareas == 2
MaxDescuentos == 2
MaxMovimientos == 5

\* The request slots that may be in flight at once, the users and the clients.
Procs == {"r1", "r2"}
Usuarios == {"A", "B"}
Clientes == {"X"}
\* What the clients submit under Spec (requests interleave): the quantity and
\* user of an intake, the quantity of a task and the quantity of a discount.
CantidadesIngreso == {50}
UsuariosIngreso == {"A"}
Cantidades == {30, 50}
CantidadesDescuento == {30}
\* Quantities the clients submit under SeqSpec (one request at a time).
CantidadesSeq == {0, 40, 60, 100}

\* SQL NULL of an INT column and of UsuarioProcesando.
NULL == 0
NoUsuario == "NULL"

\* db: the committed rows of the four tables and the IDENTITY counters.
\* req: per request slot, the handler in flight: its body, the statement it
\*      awaits next, what it has read and the writes of its open transaction.
\* last: the response to the latest request that was served alone (SeqSpec);
\*      under Spec the response is the status of the request's last Statement.
VARIABLES db, req, last, srv

vars == <<db, req, last, srv>>

\* ------------------------------------------------------------ bag helpers
RECURSIVE SumOver(_, _)
SumOver(S, col) ==
    IF S = {} THEN 0
    ELSE LET x == CHOOSE y \in S : TRUE
         IN  x[col] + SumOver(S \ {x}, col)

BagWhere(B, P(_)) == [m \in {x \in DOMAIN B : P(x)} |-> B[m]]
BagCount(B, P(_)) == BagCardinality(BagWhere(B, P))

\* -------------------------------------------------------------- the store
EmptyDb ==
    [PalletsEntrada |-> {}, TareasDescuento |-> {}, PalletsDescontados |-> {},
     Movimientos |-> EmptyBag,
     identity |-> [PalletsEntrada |-> 1, TareasDescuento |-> 1, PalletsDescontados |-> 1]]

\* The writes of an open transaction: rows inserted and rows removed (an
\* UPDATE removes the old row and inserts the new one).  Removed rows are the
\* rows the transaction holds exclusive locks on.
NoTx ==
    [insPE |-> {}, insTD |-> {}, insPD |-> {}, insMov |-> EmptyBag,
     delTD |-> {}, delPD |-> {}, delMov |-> EmptyBag]

\* What a statement of transaction tx reads: committed rows and its own writes.
ViewPE(d, tx) == d.PalletsEntrada \cup tx.insPE
ViewTD(d, tx) == (d.TareasDescuento \ tx.delTD) \cup tx.insTD
ViewPD(d, tx) == (d.PalletsDescontados \ tx.delPD) \cup tx.insPD
ViewMov(d, tx) == (d.Movimientos (-) tx.delMov) (+) tx.insMov

\* transaction.commit(): the writes become the committed rows.
Commit(d, tx) ==
    [d EXCEPT !.PalletsEntrada = ViewPE(d, tx),
              !.TareasDescuento = ViewTD(d, tx),
              !.PalletsDescontados = ViewPD(d, tx),
              !.Movimientos = ViewMov(d, tx)]

Movimiento(tipo, pe, td, pd, cliente, cantidad, usuario) ==
    [TipoMovimiento |-> tipo, PalletEntradaID |-> pe, TareaDescuentoID |-> td,
     PalletsDescontadosID |-> pd, Cliente |-> cliente, Cantidad |-> cantidad,
     Usuario |-> usuario]

\* GETDATE() of an INSERT into PalletsEntrada or PalletsDescontados: the clock
\* of the model ticks at each of these inserts, so a later insert has a
\* later time.
Ahora(d) == d.identity.PalletsEntrada + d.identity.PalletsDescontados

\* ------------------------------------------------------------- a request
Idle ==
    [op |-> "idle", pc |-> "idle", id |-> 0, cantidad |-> 0, usuario |-> NoUsuario,
     cliente |-> "X", estadoProceso |-> "", leido |-> 0, leido2 |-> 0, nuevoId |-> 0,
     tx |-> NoTx]

Request(op, pc, id, cantidad, usuario, cliente) ==
    [Idle EXCEPT !.op = op, !.pc = pc, !.id = id, !.cantidad = cantidad,
                 !.usuario = usuario, !.cliente = cliente]

\* One step of a handler: the store after it, the request after it, and the
\* HTTP status once the response is sent (0 until then).
Goto(d, r, pc) == [db |-> d, req |-> [r EXCEPT !.pc = pc], status |-> 0]
\* A faulty variant of the answer below: the writes made so far are kept.
RespondSinRollback(d, r, code) ==
    [db |-> Commit(d, r.tx), req |-> [r EXCEPT !.pc = "done", !.tx = NoTx], status |-> code]

\* transaction.rollback() (or no open writes) and res.status(code).
Respond(d, r, code) == [db |-> d, req |-> [r EXCEPT !.pc = "done", !.tx = NoTx], status |-> code]
\* transaction.commit() and res.status(code).
CommitAndRespond(d, r, code) ==
    [db |-> Commit(d, r.tx), req |-> [r EXCEPT !.pc = "done", !.tx = NoTx], status |-> code]

\* ------------------------------------------------- POST /api/pendientes
PostPendientes(d, r) ==
    CASE r.pc = "insertPallet" ->
            LET nid == d.identity.PalletsEntrada
                row == [ID |-> nid, Cliente |-> r.cliente, Cantidad |-> r.cantidad,
                        FechaHoraIngreso |-> Ahora(d)]
            IN  Goto([d EXCEPT !.identity.PalletsEntrada = nid + 1],
                     [r EXCEPT !.tx.insPE = @ \cup {row}, !.nuevoId = nid],
                     "insertMovimiento")
      [] r.pc = "insertMovimiento" ->
            Goto(d,
                 [r EXCEPT !.tx.insMov = @ (+) SetToBag({Movimiento("INGRESO", r.nuevoId,
                                NULL, NULL, r.cliente, r.cantidad, r.usuario)})],
                 "commit")
      [] r.pc = "commit" -> CommitAndRespond(d, r, 201)

\* --------------------------------------------- POST /api/tareas-descuento
\* TotalIngresado - CantidadEnTareas of the availability query: every task
\* row of the pallet counts, whatever its Estado.
\* (a faulty variant follows: the tasks of the pallet are not subtracted)
DisponibleSinTareas(pe, tareas) == pe.Cantidad

DisponibleParaTareas(pe, tareas) ==
    pe.Cantidad - SumOver({t \in tareas : t.PalletEntradaID = pe.ID}, "CantidadSolicitada")

\* A faulty variant of the row below: the task is born EnProceso.
NuevaTareaEnProceso(id, palletEntradaID, cliente, cantidad) ==
    [ID |-> id, PalletEntradaID |-> palletEntradaID, Cliente |-> cliente,
     CantidadSolicitada |-> cantidad, Estado |-> "Pendiente",
     EstadoProceso |-> "EnProceso", UsuarioProcesando |-> NoUsuario]

\* The row of INSERT INTO TareasDescuento: Estado 'Pendiente', EstadoProceso
\* 'Libre' and UsuarioProcesando NULL.
NuevaTarea(id, palletEntradaID, cliente, cantidad) ==
    [ID |-> id, PalletEntradaID |-> palletEntradaID, Cliente |-> cliente,
     CantidadSolicitada |-> cantidad, Estado |-> "Pendiente",
     EstadoProceso |-> "Libre", UsuarioProcesando |-> NoUsuario]

PostTareasDescuento(d, r) ==
    CASE r.pc = "selectDisponible" ->
            LET found == {pe \in ViewPE(d, r.tx) : pe.ID = r.id}
            IN  IF found = {} THEN Respond(d, r, 404)
                ELSE LET palletInfo == CHOOSE pe \in found : TRUE
                         disponible == DisponibleParaTareas(palletInfo, ViewTD(d, r.tx))
                     IN  IF r.cantidad <= 0 \/ r.cantidad > disponible
                         THEN Respond(d, r, 400)
                         ELSE Goto(d, r, "insertTarea")
      [] r.pc = "insertTarea" ->
            LET nid == d.identity.TareasDescuento
                row == NuevaTarea(nid, r.id, r.cliente, r.cantidad)
            IN  Goto([d EXCEPT !.identity.TareasDescuento = nid + 1],
                     [r EXCEPT !.tx.insTD = @ \cup {row}, !.nuevoId = nid],
                     "insertMovimiento")
      [] r.pc = "insertMovimiento" ->
            Goto(d,
                 [r EXCEPT !.tx.insMov = @ (+) SetToBag({Movimiento("CREACION_TAREA", NULL,
                                r.nuevoId, NULL, r.cliente, r.cantidad, "Sistema")})],
                 "commit")
      [] r.pc = "commit" -> CommitAndRespond(d, r, 201)

\* ----------------------------------------- DELETE /api/tareas-descuento/:id
\* A faulty variant of the test below: a task that is held is refused too.
YaFinalizadaOTomada(tarea) ==
    tarea.Estado = "Completada" \/ tarea.Estado = "Cancelada"
        \/ tarea.EstadoProceso = "EnProceso"

\* tarea.Estado === 'Completada' || tarea.Estado === 'Cancelada': no delete.
YaFinalizada(tarea) == tarea.Estado = "Completada" \/ tarea.Estado = "Cancelada"

\* A faulty variant of the rows below: no discount is deleted.
NingunDescuento(descontados, taskId) == {}

\* The rows of DELETE FROM PalletsDescontados WHERE TareaDescuentoID = @taskId
DescuentosDeLaTarea(descontados, taskId) ==
    {x \in descontados : x.TareaDescuentoID = taskId}

DeleteTareaDescuento(d, r) ==
    CASE r.pc = "selectTarea" ->
            LET found == {t \in ViewTD(d, r.tx) : t.ID = r.id}
            IN  IF found = {} THEN Respond(d, r, 404)
                ELSE LET tarea == CHOOSE t \in found : TRUE
                     IN  IF YaFinalizada(tarea)
                         THEN Respond(d, r, 400)
                         ELSE Goto(d, r, "deleteMovimientos")
      [] r.pc = "deleteMovimientos" ->
            LET gone == BagWhere(ViewMov(d, r.tx), LAMBDA m : m.TareaDescuentoID = r.id)
            IN  Goto(d, [r EXCEPT !.tx.delMov = @ (+) gone], "deletePalletsDescontados")
      [] r.pc = "deletePalletsDescontados" ->
            LET gone == DescuentosDeLaTarea(ViewPD(d, r.tx), r.id)
            IN  Goto(d, [r EXCEPT !.tx.delPD = @ \cup gone], "deleteTarea")
      [] r.pc = "deleteTarea" ->
            LET found == {t \in ViewTD(d, r.tx) : t.ID = r.id}
                \* FOREIGN KEY (TareaDescuentoID) REFERENCES TareasDescuento(ID)
                referenced == \E x \in ViewPD(d, r.tx) : x.TareaDescuentoID = r.id
            IN  IF found # {} /\ referenced THEN Respond(d, r, 500)
                ELSE IF found = {} THEN Respond(d, r, 500)
                ELSE Goto(d, [r EXCEPT !.tx.delTD = @ \cup found], "commit")
      [] r.pc = "commit" -> CommitAndRespond(d, r, 200)

\* ---------------------------------- POST /api/tareas-descuento/:id/bloquear
\* A faulty variant of the test below: nobody else ever holds the task.
NadieMasProcesa(tarea, usuario) == FALSE

\* The task is being processed by somebody else: 409.
EnProcesoPorOtro(tarea, usuario) ==
    tarea.EstadoProceso = "EnProceso" /\ tarea.UsuarioProcesando # usuario

\* A faulty variant of the test below: every successful claim is recorded.
SiempreRegistra(estadoProceso) == TRUE

\* TOMA_POSESION is recorded only when the task read was Libre.
EstabaLibre(estadoProceso) == estadoProceso = "Libre"

PostBloquear(d, r) ==
    CASE r.pc = "selectTarea" ->
            LET found == {t \in ViewTD(d, r.tx) : t.ID = r.id}
            IN  IF found = {} THEN Respond(d, r, 404)
                ELSE LET tarea == CHOOSE t \in found : TRUE
                     IN  IF EnProcesoPorOtro(tarea, r.usuario)
                         THEN Respond(d, r, 409)
                         ELSE Goto(d, [r EXCEPT !.estadoProceso = tarea.EstadoProceso],
                                   "updateTarea")
      [] r.pc = "updateTarea" ->
            LET hit == {t \in ViewTD(d, r.tx) :
                            t.ID = r.id /\ t.EstadoProceso \in {"Libre", "EnProceso"}}
                new == {[t EXCEPT !.EstadoProceso = "EnProceso",
                                  !.UsuarioProcesando = r.usuario] : t \in hit}
            IN  IF hit = {} THEN Respond(d, r, 409)
                ELSE Goto(d, [r EXCEPT !.tx.delTD = @ \cup (hit \cap d.TareasDescuento),
                                       !.tx.insTD = (@ \ hit) \cup new],
                          IF EstabaLibre(r.estadoProceso) THEN "insertMovimiento" ELSE "commit")
      [] r.pc = "insertMovimiento" ->
            LET rows == {Movimiento("TOMA_POSESION", NULL, t.ID, NULL, t.Cliente,
                                    t.CantidadSolicitada, r.usuario) :
                            t \in {t \in ViewTD(d, r.tx) : t.ID = r.id}}
            IN  Goto(d, [r EXCEPT !.tx.insMov = @ (+) SetToBag(rows)], "commit")
      [] r.pc = "commit" -> CommitAndRespond(d, r, 200)

\* ------------------------------------------- POST /api/descontar-pallet
\* A faulty variant of the test below: the holder is not compared.
NoEstaEnProceso(tarea, usuario) == tarea.EstadoProceso # "EnProceso"

\* The task is not being processed by this user: no discount.
NoLaProcesaElUsuario(tarea, usuario) ==
    tarea.EstadoProceso # "EnProceso" \/ tarea.UsuarioProcesando # usuario

\* A faulty variant of the difference below.
PendienteDoble(cantidadSolicitada, descontadoHastaAhora) ==
    2 * cantidadSolicitada - descontadoHastaAhora

\* tarea.CantidadSolicitada - descontadoHastaAhora
CantidadPendienteEnTarea(cantidadSolicitada, descontadoHastaAhora) ==
    cantidadSolicitada - descontadoHastaAhora

\* A faulty variant of the test below: no discount completes the task.
NuncaCompletada(cantidadADescontar, cantidadPendienteEnTarea) == FALSE

\* The discount takes all that was pending: the task becomes Completada.
TareaCompletada(cantidadADescontar, cantidadPendienteEnTarea) ==
    cantidadADescontar = cantidadPendienteEnTarea

PostDescontarPallet(d, r) ==
    CASE r.pc = "selectTarea" ->
            LET found == {t \in ViewTD(d, r.tx) : t.ID = r.id}
            IN  IF found = {} THEN Respond(d, r, 404)
                ELSE LET tarea == CHOOSE t \in found : TRUE
                     IN  IF NoLaProcesaElUsuario(tarea, r.usuario)
                         THEN IF tarea.EstadoProceso # "EnProceso"
                              THEN Respond(d, r, 400)
                              ELSE Respond(d, r, 403)
                         ELSE Goto(d, [r EXCEPT !.leido = tarea.CantidadSolicitada,
                                                !.cliente = tarea.Cliente],
                                   "selectDescontado")
      [] r.pc = "selectDescontado" ->
            LET descontadoHastaAhora ==
                    SumOver({x \in ViewPD(d, r.tx) : x.TareaDescuentoID = r.id},
                            "CantidadDescontada")
                cantidadPendienteEnTarea == CantidadPendienteEnTarea(r.leido, descontadoHastaAhora)
            IN  IF r.cantidad <= 0 \/ r.cantidad > cantidadPendienteEnTarea
                THEN Respond(d, r, 400)
                ELSE Goto(d, [r EXCEPT !.leido2 = cantidadPendienteEnTarea],
                          "insertPalletsDescontados")
      [] r.pc = "insertPalletsDescontados" ->
            LET nid == d.identity.PalletsDescontados
                row == [ID |-> nid, TareaDescuentoID |-> r.id, PalletEntradaID |-> NULL,
                        Cliente |-> r.cliente, CantidadDescontada |-> r.cantidad,
                        FechaHoraDescuento |-> Ahora(d)]
                \* FOREIGN KEY (TareaDescuentoID) REFERENCES TareasDescuento(ID)
                parent == \E t \in ViewTD(d, r.tx) : t.ID = r.id
            IN  IF ~parent THEN Respond(d, r, 500)
                ELSE Goto([d EXCEPT !.identity.PalletsDescontados = nid + 1],
                          [r EXCEPT !.tx.insPD = @ \cup {row}, !.nuevoId = nid],
                          "updateTarea")
      [] r.pc = "updateTarea" ->
            LET completa == TareaCompletada(r.cantidad, r.leido2)
                hit == {t \in ViewTD(d, r.tx) :
                            t.ID = r.id /\ (completa \/ t.EstadoProceso = "EnProceso")}
                new == {[t EXCEPT !.Estado = IF completa THEN "Completada" ELSE @,
                                  !.EstadoProceso = "Libre",
                                  !.UsuarioProcesando = NoUsuario] : t \in hit}
            IN  Goto(d, [r EXCEPT !.tx.delTD = @ \cup (hit \cap d.TareasDescuento),
                                  !.tx.insTD = (@ \ hit) \cup new],
                     "insertMovimiento")
      [] r.pc = "insertMovimiento" ->
            Goto(d,
                 [r EXCEPT !.tx.insMov = @ (+) SetToBag({Movimiento("DESCUENTO", NULL, r.id,
                                r.nuevoId, r.cliente, r.cantidad, r.usuario)})],
                 "commit")
      [] r.pc = "commit" -> CommitAndRespond(d, r, 200)

\* ------------------------------- POST /api/tareas-descuento/:id/desbloquear
\* A faulty variant of the test below: the holder is not compared.
NoEstaTomada(tarea, usuario) == tarea.EstadoProceso # "EnProceso"

\* The task is not held by this user: no release.
NoEsElPoseedor(tarea, usuario) ==
    tarea.EstadoProceso # "EnProceso" \/ tarea.UsuarioProcesando # usuario

\* A faulty variant of the row below: the holder stays.
TareaLiberadaConPoseedor(t) == [t EXCEPT !.EstadoProceso = "Libre"]

\* SET EstadoProceso = 'Libre', UsuarioProcesando = NULL
TareaLiberada(t) == [t EXCEPT !.EstadoProceso = "Libre", !.UsuarioProcesando = NoUsuario]

PostDesbloquear(d, r) ==
    CASE r.pc = "selectTarea" ->
            LET found == {t \in ViewTD(d, r.tx) : t.ID = r.id}
            IN  IF found = {} THEN Respond(d, r, 404)
                ELSE LET tarea == CHOOSE t \in found : TRUE
                     IN  IF NoEsElPoseedor(tarea, r.usuario)
                         THEN IF tarea.EstadoProceso # "EnProceso"
                              THEN Respond(d, r, 400)
                              ELSE Respond(d, r, 403)
                         ELSE Goto(d, r, "updateTarea")
      [] r.pc = "updateTarea" ->
            LET hit == {t \in ViewTD(d, r.tx) : t.ID = r.id /\ t.UsuarioProcesando = r.usuario}
                new == {TareaLiberada(t) : t \in hit}
            IN  IF hit = {} THEN Respond(d, r, 409)
                ELSE Goto(d, [r EXCEPT !.tx.delTD = @ \cup (hit \cap d.TareasDescuento),
                                       !.tx.insTD = (@ \ hit) \cup new],
                          "insertMovimiento")
      [] r.pc = "insertMovimiento" ->
            LET rows == {Movimiento("DESBLOQUEO_TAREA", NULL, t.ID, NULL, t.Cliente,
                                    t.CantidadSolicitada, "Sistema") :
                            t \in {t \in ViewTD(d, r.tx) : t.ID = r.id}}
            IN  Goto(d, [r EXCEPT !.tx.insMov = @ (+) SetToBag(rows)], "commit")
      [] r.pc = "commit" -> CommitAndRespond(d, r, 200)

\* ------------------------------------ POST /api/descontar-pallet-directo
\* pallet.TotalIngresado - descontadoDirectamente - enTareasPendientes
\* (a faulty variant follows: the Pendiente tasks are not subtracted)
DisponibleSinTareasPendientes(totalIngresado, descontadoDirectamente, enTareasPendientes) ==
    totalIngresado - descontadoDirectamente

DisponibleParaDescuentoDirecto(totalIngresado, descontadoDirectamente, enTareasPendientes) ==
    totalIngresado - descontadoDirectamente - enTareasPendientes

PostDescontarPalletDirecto(d, r) ==
    CASE r.pc = "selectPallet" ->
            LET found == {pe \in ViewPE(d, r.tx) : pe.ID = r.id}
            IN  IF found = {} THEN Respond(d, r, 404)
                ELSE LET pallet == CHOOSE pe \in found : TRUE
                     IN  Goto(d, [r EXCEPT !.leido = pallet.Cantidad,
                                           !.cliente = pallet.Cliente],
                              "selectDescontadoDirecto")
      [] r.pc = "selectDescontadoDirecto" ->
            LET descontadoDirectamente ==
                    SumOver({x \in ViewPD(d, r.tx) :
                                x.TareaDescuentoID = NULL /\ x.PalletEntradaID = r.id},
                            "CantidadDescontada")
            IN  Goto(d, [r EXCEPT !.leido2 = descontadoDirectamente], "selectEnTareas")
      [] r.pc = "selectEnTareas" ->
            LET enTareasPendientes ==
                    SumOver({t \in ViewTD(d, r.tx) :
                                t.PalletEntradaID = r.id /\ t.Estado = "Pendiente"},
                            "CantidadSolicitada")
                disponible == DisponibleParaDescuentoDirecto(r.leido, r.leido2, enTareasPendientes)
            IN  IF r.cantidad <= 0 \/ r.cantidad > disponible
                THEN Respond(d, r, 400)
                ELSE Goto(d, r, "insertPalletsDescontados")
      [] r.pc = "insertPalletsDescontados" ->
            LET nid == d.identity.PalletsDescontados
                row == [ID |-> nid, TareaDescuentoID |-> NULL, PalletEntradaID |-> r.id,
                        Cliente |-> r.cliente, CantidadDescontada |-> r.cantidad,
                        FechaHoraDescuento |-> Ahora(d)]
            IN  Goto([d EXCEPT !.identity.PalletsDescontados = nid + 1],
                     [r EXCEPT !.tx.insPD = @ \cup {row}, !.nuevoId = nid],
                     "insertMovimiento")
      [] r.pc = "insertMovimiento" ->
            Goto(d,
                 [r EXCEPT !.tx.insMov = @ (+) SetToBag({Movimiento("DESCUENTO_DIRECTO", r.id,
                                NULL, r.nuevoId, r.cliente, r.cantidad, "Sistema")})],
                 "commit")
      [] r.pc = "commit" -> CommitAndRespond(d, r, 200)

\* ---------------------------------------------------------- dispatching
\* ---------------------------------------------------- GET /api/status
\* A faulty variant of the KPI below: the direct discounts are not subtracted.
PendientesSinDirectos(totalIngresados, totalDescDirectos, totalEnTareas) ==
    totalIngresados - totalEnTareas

\* pendientesReales
PendientesReales(totalIngresados, totalDescDirectos, totalEnTareas) ==
    totalIngresados - totalDescDirectos - totalEnTareas

\* SELECT TOP 1 ... ORDER BY col DESC over a set of rows that has a row.
Top1(S, col) == CHOOSE x \in S : \A y \in S : y[col] <= x[col]

\* lastAction: the last intake, unless the last discount the query returns is
\* more recent or there is no intake.  The query joins PalletsDescontados
\* with TareasDescuento on TareaDescuentoID, so it returns the discounts of
\* stored tasks.  The text `Ingreso <Cliente> (<Cantidad>)` is kept as the
\* tuple of its parts, as is `Descontado <CantidadDescontada> de <Cliente>`.
UltimaAccion(d) ==
    LET lastIngreso == d.PalletsEntrada
        lastDescuento ==
            {x \in d.PalletsDescontados :
                /\ x.TareaDescuentoID # NULL
                /\ \E t \in d.TareasDescuento : t.ID = x.TareaDescuentoID}
        ingresoData == Top1(lastIngreso, "FechaHoraIngreso")
        descuentoData == Top1(lastDescuento, "FechaHoraDescuento")
        clienteDeTarea ==
            (CHOOSE t \in d.TareasDescuento : t.ID = descuentoData.TareaDescuentoID).Cliente
    IN  IF lastDescuento # {}
           /\ (lastIngreso = {}
                  \/ descuentoData.FechaHoraDescuento > ingresoData.FechaHoraIngreso)
        THEN <<"Descontado", descuentoData.CantidadDescontada, clienteDeTarea>>
        ELSE IF lastIngreso # {}
             THEN <<"Ingreso", ingresoData.Cliente, ingresoData.Cantidad>>
             ELSE <<"-">>

\* The KPIs of the response, with no fechaInicio in the query: the sums run
\* over the whole tables.
GetStatus(d) ==
    LET totalIngresados == SumOver(d.PalletsEntrada, "Cantidad")
        totalDescDirectos ==
            SumOver({x \in d.PalletsDescontados : x.TareaDescuentoID = NULL},
                    "CantidadDescontada")
        totalEnTareas == SumOver(d.TareasDescuento, "CantidadSolicitada")
        totalTareasCanceladas ==
            SumOver({t \in d.TareasDescuento : t.Estado = "Cancelada"}, "CantidadSolicitada")
        totalTareasCompletadas ==
            SumOver({t \in d.TareasDescuento : t.Estado = "Completada"}, "CantidadSolicitada")
    IN  [pendientes |-> PendientesReales(totalIngresados, totalDescDirectos, totalEnTareas),
         cancelados |-> totalTareasCanceladas,
         descargados |-> totalDescDirectos + totalTareasCompletadas,
         lastAction |-> UltimaAccion(d)]

\* The body is validated before the transaction begins: a quantity that is
\* not positive is answered 400.
CantidadValida(cantidad) == cantidad > 0

\* String.prototype.trim() on the texts of the model: the text of one space
\* becomes the empty text, a name has no surrounding space.
Trim(s) == IF s = " " THEN "" ELSE s

\* A faulty variant of the check below: a blank client passes.
CualquierCliente(cliente) == TRUE

\* !cliente || cliente.trim() === "" is answered 400; the empty text stands
\* for a field that is missing or empty.
ClienteValido(cliente) == cliente # "" /\ Trim(cliente) # ""

\* A faulty variant of the check below: a blank user passes.
CualquierUsuario(usuario) == TRUE

\* !usuario || usuario.trim() === "" is answered 400.
UsuarioValido(usuario) == usuario # "" /\ Trim(usuario) # ""

\* The checks each route makes on its body before new sql.Transaction(pool).
BodyValido(r) ==
    CASE r.op = "pendientes" ->
            ClienteValido(r.cliente) /\ CantidadValida(r.cantidad) /\ UsuarioValido(r.usuario)
      [] r.op = "tareas" -> ClienteValido(r.cliente) /\ CantidadValida(r.cantidad)
      [] r.op = "descontar" -> CantidadValida(r.cantidad) /\ UsuarioValido(r.usuario)
      [] r.op = "directo" -> CantidadValida(r.cantidad)
      [] r.op \in {"bloquear", "desbloquear"} -> UsuarioValido(r.usuario)
      [] OTHER -> TRUE

Handler(d, r) ==
    CASE ~BodyValido(r) -> Respond(d, r, 400)
      [] r.op = "pendientes" -> PostPendientes(d, r)
      [] r.op = "tareas" -> PostTareasDescuento(d, r)
      [] r.op = "eliminar" -> DeleteTareaDescuento(d, r)
      [] r.op = "bloquear" -> PostBloquear(d, r)
      [] r.op = "descontar" -> PostDescontarPallet(d, r)
      [] r.op = "desbloquear" -> PostDesbloquear(d, r)
      [] r.op = "directo" -> PostDescontarPalletDirecto(d, r)

\* A statement waits while a row it must lock is locked by another open
\* transaction: a row that one updated or deleted, and for a foreign-key check
\* the parent row it changed or the child rows it inserted.
Blocked(r, others) ==
    \E o \in others :
        \/ /\ r.pc = "updateTarea" \/ r.pc = "deleteTarea"
              \/ (r.op = "descontar" /\ r.pc = "insertPalletsDescontados")
           /\ \E t \in o.delTD : t.ID = r.id
        \/ /\ r.pc = "deleteTarea"
           /\ \E x \in o.insPD : x.TareaDescuentoID = r.id
        \/ /\ r.pc = "deletePalletsDescontados"
           /\ \E x \in o.delPD : x.TareaDescuentoID = r.id
        \/ /\ r.pc = "deleteMovimientos"
           /\ \E m \in DOMAIN o.delMov : m.TareaDescuentoID = r.id

\* The whole handler with no other request in flight.
RECURSIVE Run(_, _)
Run(d, r) ==
    LET s == Handler(d, r)
    IN  IF s.status # 0 THEN s ELSE Run(s.db, s.req)

\* A faulty variant of the catch block below: what the transaction wrote
\* before the failure is kept.
CatchSinRollback(d, r) == CommitAndRespond(d, r, 500)

\* catch (err): transaction.rollback() and res.status(500).
Catch(d, r) == Respond(d, r, 500)

\* The status of a request whose handler ended without calling res.
SinRespuesta == -1

\* catch (err) after transaction.begin() rejected: `if (transaction)` holds
\* for the object built before the try, transaction.rollback() is called on
\* a transaction that has not begun and rejects (TransactionError
\* ENOTBEGUN) inside the catch block, so res.status(500) is not reached.
\* No statement ran.
CatchNotBegun(d, r) ==
    [db |-> d, req |-> [r EXCEPT !.pc = "done", !.tx = NoTx], status |-> SinRespuesta]

\* The statements a handler awaits between transaction.begin() and
\* transaction.commit(), and the choice of the one the server rejects (lost
\* connection, timeout, constraint): its await throws into the catch block.
Sentencias(op) ==
    CASE op = "pendientes" -> {"insertPallet", "insertMovimiento"}
      [] op = "tareas" -> {"selectDisponible", "insertTarea", "insertMovimiento"}
      [] op = "eliminar" ->
            {"selectTarea", "deleteMovimientos", "deletePalletsDescontados", "deleteTarea"}
      [] op = "bloquear" -> {"selectTarea", "updateTarea", "insertMovimiento"}
      [] op = "descontar" ->
            {"selectTarea", "selectDescontado", "insertPalletsDescontados", "updateTarea",
             "insertMovimiento"}
      [] op = "desbloquear" -> {"selectTarea", "updateTarea", "insertMovimiento"}
      [] op = "directo" ->
            {"selectPallet", "selectDescontadoDirecto", "selectEnTareas",
             "insertPalletsDescontados", "insertMovimiento"}
\* The failure of a request: none, transaction.begin() rejecting (no
\* connection to be had from the pool), or one of its statements rejecting.
Fallas(op) == Sentencias(op) \cup {"ninguna", "begin"}

\* The whole handler with no other request in flight, its statement f failing.
\* The IDENTITY values of the rows inserted before the failure stay consumed.
RECURSIVE RunWithFailure(_, _, _)
RunWithFailure(d, r, f) ==
    IF BodyValido(r) /\ f = "begin" THEN CatchNotBegun(d, r)
    ELSE IF BodyValido(r) /\ r.pc = f THEN Catch(d, r)
    ELSE LET s == Handler(d, r)
         IN  IF s.status # 0 THEN s ELSE RunWithFailure(s.db, s.req, f)

\* The request that was answered, the EstadoProceso its handler read (bloquear)
\* and the HTTP status of the answer.
Response(r, status) ==
    [op |-> r.op, id |-> r.id, cantidad |-> r.cantidad, usuario |-> r.usuario,
     cliente |-> r.cliente, estadoProceso |-> r.estadoProceso, status |-> status]

\* ------------------------------------------------ bounds on what is stored
Open(R) == {p \in Procs : R[p].op # "idle"}
RoomPallets(R) ==
    db.identity.PalletsEntrada - 1
        + Cardinality({p \in Open(R) : R[p].op = "pendientes" /\ R[p].pc = "insertPallet"})
        < MaxPallets
RoomTareas(R) ==
    db.identity.TareasDescuento - 1
        + Cardinality({p \in Open(R) : R[p].op = "tareas" /\ R[p].nuevoId = 0})
        < MaxTareas
RoomDescuentos(R) ==
    db.identity.PalletsDescontados - 1
        + Cardinality({p \in Open(R) : R[p].op \in {"descontar", "directo"} /\ R[p].nuevoId = 0})
        < MaxDescuentos
RoomMovimientos(R) ==
    BagCardinality(db.Movimientos)
        + Cardinality({p \in Open(R) : R[p].op # "eliminar"})
        < MaxMovimientos

PalletIds == 1..MaxPallets
TareaIds == 1..MaxTareas

\* ------------------------------------------------------------------ state
\* The process once startServer() has run to app.listen(): the pool is
\* connected, the tables exist and the routes are served.
EnServicio == [pc |-> "listening", pool |-> TRUE, isDbConnected |-> TRUE, tablas |-> TRUE]

Init ==
    /\ db = EmptyDb
    /\ req = [p \in Procs |-> Idle]
    /\ last = Response(Idle, 0)
    /\ srv = EnServicio

\* A request arrives: the handler validates the body and begins its transaction.
Begin(p, r, room) ==
    /\ req[p] = Idle
    /\ room
    /\ req' = [req EXCEPT ![p] = r]
    /\ UNCHANGED <<db, last, srv>>

BeginPendientes(p) ==
    \E c \in CantidadesIngreso, u \in UsuariosIngreso, cl \in Clientes :
        Begin(p, Request("pendientes", "insertPallet", 0, c, u, cl),
              RoomPallets(req) /\ RoomMovimientos(req))

BeginTareasDescuento(p) ==
    \E id \in PalletIds, c \in Cantidades, cl \in Clientes :
        Begin(p, Request("tareas", "selectDisponible", id, c, NoUsuario, cl),
              RoomTareas(req) /\ RoomMovimientos(req))

BeginEliminar(p) ==
    \E id \in TareaIds :
        Begin(p, Request("eliminar", "selectTarea", id, 0, NoUsuario, "X"), TRUE)

BeginBloquear(p) ==
    \E id \in TareaIds, u \in Usuarios :
        Begin(p, Request("bloquear", "selectTarea", id, 0, u, "X"), RoomMovimientos(req))

BeginDescontarPallet(p) ==
    \E id \in TareaIds, c \in CantidadesDescuento, u \in Usuarios :
        Begin(p, Request("descontar", "selectTarea", id, c, u, "X"),
              RoomDescuentos(req) /\ RoomMovimientos(req))

BeginDesbloquear(p) ==
    \E id \in TareaIds, u \in Usuarios :
        Begin(p, Request("desbloquear", "selectTarea", id, 0, u, "X"), RoomMovimientos(req))

BeginDescontarPalletDirecto(p) ==
    \E id \in PalletIds, c \in CantidadesDescuento :
        Begin(p, Request("directo", "selectPallet", id, c, NoUsuario, "X"),
              RoomDescuentos(req) /\ RoomMovimientos(req))

\* The next awaited statement of request p runs; the request ends with its response.
Statement(p) ==
    /\ req[p] # Idle
    /\ ~Blocked(req[p], {req[q].tx : q \in Procs \ {p}})
    /\ LET s == Handler(db, req[p])
       IN  /\ db' = s.db
           /\ IF s.status # 0
              THEN req' = [req EXCEPT ![p] = Idle]
              ELSE req' = [req EXCEPT ![p] = s.req]
           /\ UNCHANGED <<last, srv>>

Next ==
    \E p \in Procs :
        \/ BeginPendientes(p)
        \/ BeginTareasDescuento(p)
        \/ BeginEliminar(p)
        \/ BeginBloquear(p)
        \/ BeginDescontarPallet(p)
        \/ BeginDesbloquear(p)
        \/ BeginDescontarPalletDirecto(p)
        \/ Statement(p)

Spec == Init /\ [][Next]_vars

\* --------------------------------------------- one request at a time
\* The request is served from its validation to its response before the next
\* one arrives.
Serve(r, room) ==
    /\ \A p \in Procs : req[p] = Idle
    /\ room
    /\ LET s == Run(db, r)
       IN  /\ db' = s.db
           /\ last' = Response(s.req, s.status)
    /\ UNCHANGED <<req, srv>>

ServePendientes ==
    \E c \in CantidadesSeq, u \in Usuarios, cl \in Clientes :
        Serve(Request("pendientes", "insertPallet", 0, c, u, cl),
              RoomPallets(req) /\ RoomMovimientos(req))

ServeTareasDescuento ==
    \E id \in PalletIds, c \in CantidadesSeq, cl \in Clientes :
        Serve(Request("tareas", "selectDisponible", id, c, NoUsuario, cl),
              RoomTareas(req) /\ RoomMovimientos(req))

ServeEliminar ==
    \E id \in TareaIds :
        Serve(Request("eliminar", "selectTarea", id, 0, NoUsuario, "X"), TRUE)

ServeBloquear ==
    \E id \in TareaIds, u \in Usuarios :
        Serve(Request("bloquear", "selectTarea", id, 0, u, "X"), RoomMovimientos(req))

ServeDescontarPallet ==
    \E id \in TareaIds, c \in CantidadesSeq, u \in Usuarios :
        Serve(Request("descontar", "selectTarea", id, c, u, "X"),
              RoomDescuentos(req) /\ RoomMovimientos(req))

ServeDesbloquear ==
    \E id \in TareaIds, u \in Usuarios :
        Serve(Request("desbloquear", "selectTarea", id, 0, u, "X"), RoomMovimientos(req))

ServeDescontarPalletDirecto ==
    \E id \in PalletIds, c \in CantidadesSeq :
        Serve(Request("directo", "selectPallet", id, c, NoUsuario, "X"),
              RoomDescuentos(req) /\ RoomMovimientos(req))

NextSeq ==
    \/ ServePendientes
    \/ ServeTareasDescuento
    \/ ServeEliminar
    \/ ServeBloquear
    \/ ServeDescontarPallet
    \/ ServeDesbloquear
    \/ ServeDescontarPalletDirecto

SeqSpec == Init /\ [][NextSeq]_vars

\* ------------------------------------------------------------------------
\* One request at a time, with the bodies a route refuses (a blank client or
\* user, a quantity of 0) and with a statement that fails.
UsuariosErr == Usuarios \cup {"", " "}
ClientesErr == Clientes \cup {"", " "}
CantidadesIngresoErr == {0, 50}
CantidadesTareaErr == {0, 30}
CantidadesDescuentoErr == {0, 30}

ServeWithFailure(r, room, f) ==
    /\ \A p \in Procs : req[p] = Idle
    /\ room
    /\ LET s == RunWithFailure(db, r, f)
       IN  /\ db' = s.db
           /\ last' = Response(s.req, s.status)
    /\ UNCHANGED <<req, srv>>

ErrPendientes ==
    \E c \in CantidadesIngresoErr, u \in UsuariosErr, cl \in ClientesErr, f \in Fallas("pendientes") :
        ServeWithFailure(Request("pendientes", "insertPallet", 0, c, u, cl),
                         RoomPallets(req) /\ RoomMovimientos(req), f)

ErrTareasDescuento ==
    \E id \in PalletIds, c \in CantidadesTareaErr, cl \in ClientesErr, f \in Fallas("tareas") :
        ServeWithFailure(Request("tareas", "selectDisponible", id, c, NoUsuario, cl),
                         RoomTareas(req) /\ RoomMovimientos(req), f)

ErrEliminar ==
    \E id \in TareaIds, f \in Fallas("eliminar") :
        ServeWithFailure(Request("eliminar", "selectTarea", id, 0, NoUsuario, "X"), TRUE, f)

ErrBloquear ==
    \E id \in TareaIds, u \in UsuariosErr, f \in Fallas("bloquear") :
        ServeWithFailure(Request("bloquear", "selectTarea", id, 0, u, "X"),
                         RoomMovimientos(req), f)

ErrDescontarPallet ==
    \E id \in TareaIds, c \in CantidadesDescuentoErr, u \in UsuariosErr, f \in Fallas("descontar") :
        ServeWithFailure(Request("descontar", "selectTarea", id, c, u, "X"),
                         RoomDescuentos(req) /\ RoomMovimientos(req), f)

ErrDesbloquear ==
    \E id \in TareaIds, u \in UsuariosErr, f \in Fallas("desbloquear") :
        ServeWithFailure(Request("desbloquear", "selectTarea", id, 0, u, "X"),
                         RoomMovimientos(req), f)

ErrDescontarPalletDirecto ==
    \E id \in PalletIds, c \in CantidadesDescuentoErr, f \in Fallas("directo") :
        ServeWithFailure(Request("directo", "selectPallet", id, c, NoUsuario, "X"),
                         RoomDescuentos(req) /\ RoomMovimientos(req), f)

NextErr ==
    \/ ErrPendientes
    \/ ErrTareasDescuento
    \/ ErrEliminar
    \/ ErrBloquear
    \/ ErrDescontarPallet
    \/ ErrDesbloquear
    \/ ErrDescontarPalletDirecto

ErrSpec == Init /\ [][NextErr]_vars

\* ------------------------------------------------------------------------
\* The start of the process, then one request at a time.  srv.pool stands
\* for `pool` not being null.
Arranque == [pc |-> "connect", pool |-> FALSE, isDbConnected |-> FALSE, tablas |-> FALSE]

InitStart ==
    /\ db = EmptyDb
    /\ req = [p \in Procs |-> Idle]
    /\ last = Response(Idle, 0)
    /\ srv = Arranque

\* connectToDatabase(): new sql.ConnectionPool(dbConfig).connect() resolves.
ConnectOk ==
    /\ srv.pc = "connect"
    /\ srv' = [srv EXCEPT !.pool = TRUE, !.isDbConnected = TRUE, !.pc = "createTables"]
    /\ UNCHANGED <<db, req, last>>

\* connectToDatabase(): connect() rejects; the error is thrown on to
\* startServer(), whose catch block ends the process.
ConnectFail ==
    /\ srv.pc = "connect"
    /\ srv' = [srv EXCEPT !.isDbConnected = FALSE, !.pc = "exited"]
    /\ UNCHANGED <<db, req, last>>

\* await pool.request().query(createTablesQuery) resolves.
CreateTablesOk ==
    /\ srv.pc = "createTables"
    /\ srv' = [srv EXCEPT !.tablas = TRUE, !.pc = "listen"]
    /\ UNCHANGED <<db, req, last>>

\* The query rejects: process.exit(1).
CreateTablesFail ==
    /\ srv.pc = "createTables"
    /\ srv' = [srv EXCEPT !.pc = "exited"]
    /\ UNCHANGED <<db, req, last>>

\* A faulty variant of the test below: app.listen() does not wait.
EscuchaSinEsperar(s) == s.pc \in {"connect", "createTables", "listen"}

\* app.listen() is the statement after the two awaits of startServer().
PuedeEscuchar(s) == s.pc = "listen"

Listen ==
    /\ PuedeEscuchar(srv)
    /\ srv' = [srv EXCEPT !.pc = "listening"]
    /\ UNCHANGED <<db, req, last>>

\* if (!pool || !isDbConnected) return res.status(503)
PoolNoListo(s) == ~s.pool \/ ~s.isDbConnected

PeticionesStart ==
    {Request("pendientes", "insertPallet", 0, c, "A", "X") : c \in CantidadesIngreso}
    \cup {Request("tareas", "selectDisponible", id, 30, NoUsuario, "X") : id \in PalletIds}
    \cup {Request("eliminar", "selectTarea", id, 0, NoUsuario, "X") : id \in TareaIds}
    \cup {Request(op, "selectTarea", id, 0, u, "X") :
              op \in {"bloquear", "desbloquear"}, id \in TareaIds, u \in Usuarios}
    \cup {Request("descontar", "selectTarea", id, 30, u, "X") :
              id \in TareaIds, u \in Usuarios}
    \cup {Request("directo", "selectPallet", id, 30, NoUsuario, "X") : id \in PalletIds}

RoomStart(r) ==
    CASE r.op = "pendientes" -> RoomPallets(req) /\ RoomMovimientos(req)
      [] r.op = "tareas" -> RoomTareas(req) /\ RoomMovimientos(req)
      [] r.op = "eliminar" -> TRUE
      [] r.op \in {"bloquear", "desbloquear"} -> RoomMovimientos(req)
      [] OTHER -> RoomDescuentos(req) /\ RoomMovimientos(req)

\* A request reaches a route of the listening server.
Atender ==
    /\ srv.pc = "listening"
    /\ \A p \in Procs : req[p] = Idle
    /\ \E r \in PeticionesStart :
          /\ RoomStart(r)
          /\ IF PoolNoListo(srv)
             THEN db' = db /\ last' = Response(r, 503)
             ELSE LET s == Run(db, r)
                  IN  db' = s.db /\ last' = Response(s.req, s.status)
    /\ UNCHANGED <<req, srv>>

NextStart ==
    \/ ConnectOk
    \/ ConnectFail
    \/ CreateTablesOk
    \/ CreateTablesFail
    \/ Listen
    \/ Atender

StartSpec == InitStart /\ [][NextStart]_vars

\* ------------------------------------------------------------------------
\* One request at a time, with the quantities of a longer day: an intake of
\* 200, direct discounts of 50, tasks of 100 and discounts of 40 and 60, and
\* room for three discounts and seven movements.
MaxDescuentosEsc == 3
MaxMovimientosEsc == 7
CantidadesIngresoEsc == {200}
CantidadesTareaEsc == {100}
CantidadesDirectoEsc == {50}
CantidadesDescuentoEsc == {40, 60}

RoomDescuentosEsc == db.identity.PalletsDescontados - 1 < MaxDescuentosEsc
RoomMovimientosEsc == BagCardinality(db.Movimientos) < MaxMovimientosEsc

EscPendientes ==
    \E c \in CantidadesIngresoEsc, u \in UsuariosIngreso, cl \in Clientes :
        Serve(Request("pendientes", "insertPallet", 0, c, u, cl),
              RoomPallets(req) /\ RoomMovimientosEsc)

EscTareasDescuento ==
    \E id \in PalletIds, c \in CantidadesTareaEsc, cl \in Clientes :
        Serve(Request("tareas", "selectDisponible", id, c, NoUsuario, cl),
              RoomTareas(req) /\ RoomMovimientosEsc)

EscEliminar ==
    \E id \in TareaIds :
        Serve(Request("eliminar", "selectTarea", id, 0, NoUsuario, "X"), TRUE)

EscBloquear ==
    \E id \in TareaIds, u \in Usuarios :
        Serve(Request("bloquear", "selectTarea", id, 0, u, "X"), RoomMovimientosEsc)

EscDescontarPallet ==
    \E id \in TareaIds, c \in CantidadesDescuentoEsc, u \in Usuarios :
        Serve(Request("descontar", "selectTarea", id, c, u, "X"),
              RoomDescuentosEsc /\ RoomMovimientosEsc)

EscDesbloquear ==
    \E id \in TareaIds, u \in Usuarios :
        Serve(Request("desbloquear", "selectTarea", id, 0, u, "X"), RoomMovimientosEsc)

EscDescontarPalletDirecto ==
    \E id \in PalletIds, c \in CantidadesDirectoEsc :
        Serve(Request("directo", "selectPallet", id, c, NoUsuario, "X"),
              RoomDescuentosEsc /\ RoomMovimientosEsc)

NextEsc ==
    \/ EscPendientes
    \/ EscTareasDescuento
    \/ EscEliminar
    \/ EscBloquear
    \/ EscDescontarPallet
    \/ EscDesbloquear
    \/ EscDescontarPalletDirecto

EscSpec == Init /\ [][NextEsc]_vars


\* ====================================================================
\* Properties of the committed rows
\* ====================================================================
TareasDe(pe) == {t \in db.TareasDescuento : t.PalletEntradaID = pe.ID}

\* Discounted directly against the pallet (TareaDescuentoID IS NULL).
DescontadoDirectamente(pe) ==
    SumOver({x \in db.PalletsDescontados :
                x.TareaDescuentoID = NULL /\ x.PalletEntradaID = pe.ID},
            "CantidadDescontada")

\* Discounted against one task.
DescontadoEnTarea(t) ==
    SumOver({x \in db.PalletsDescontados : x.TareaDescuentoID = t.ID},
            "CantidadDescontada")

\* Discounted against the tasks of the pallet.
DescontadoEnTareas(pe) ==
    SumOver({x \in db.PalletsDescontados :
                \E t \in TareasDe(pe) : x.TareaDescuentoID = t.ID},
            "CantidadDescontada")

\* Requested by the tasks of the pallet that are still Pendiente.
EnTareasPendientes(pe) ==
    SumOver({t \in TareasDe(pe) : t.Estado = "Pendiente"}, "CantidadSolicitada")

\* The availability of a pallet: received, minus discounted directly, minus
\* requested by its Pendiente tasks.
Disponible(pe) ==
    DisponibleParaDescuentoDirecto(pe.Cantidad, DescontadoDirectamente(pe),
                                   EnTareasPendientes(pe))

\* What is left to discount of a task.
CantidadPendiente(t) == t.CantidadSolicitada - DescontadoEnTarea(t)

\* Movements of one type recorded for a task in store d.
MovimientosDe(d, tipo, id) ==
    BagCount(d.Movimientos,
             LAMBDA m : m.TipoMovimiento = tipo /\ m.TareaDescuentoID = id)

\* No request is in flight.
Quiescent == \A p \in Procs : req[p] = Idle

\* --------------------------------------------------------------------
\* C1: after any sequence of operations the availability of every pallet
\* (received - discounted directly - requested by Pendiente tasks) is >= 0.
C1_DisponibleNoNegativo ==
    \A pe \in db.PalletsEntrada : Disponible(pe) >= 0

\* --------------------------------------------------------------------
\* C2: what has been discounted from a pallet, directly and through its
\* tasks, never exceeds the quantity received.
C2_DescontadoNoExcedeIngresado ==
    \A pe \in db.PalletsEntrada :
        DescontadoDirectamente(pe) + DescontadoEnTareas(pe) <= pe.Cantidad

\* --------------------------------------------------------------------
\* C3: the pending quantity of every task is >= 0, and a task with nothing
\* pending is Completada.
C3_PendienteDeTarea ==
    \A t \in db.TareasDescuento :
        /\ CantidadPendiente(t) >= 0
        /\ CantidadPendiente(t) = 0 => t.Estado = "Completada"

\* --------------------------------------------------------------------
\* C4: of two task creations of 30 on a pallet whose availability is 50, one
\* commits at most: the pallet never has two tasks of 30.
C4_UnaSolaTareaDe30 ==
    \A pe \in db.PalletsEntrada :
        pe.Cantidad = 50 =>
            Cardinality({t \in TareasDe(pe) : t.CantidadSolicitada = 30}) <= 1

\* --------------------------------------------------------------------
\* C5: a claim takes possession (commits a TOMA_POSESION movement) only of a
\* task that is Libre at that moment, so of two racing claims one wins.
C5_UnaSolaToma ==
    [][\A t \in db.TareasDescuento :
          MovimientosDe(db', "TOMA_POSESION", t.ID) > MovimientosDe(db, "TOMA_POSESION", t.ID)
              => t.EstadoProceso = "Libre"]_vars

\* --------------------------------------------------------------------
\* C6: the check and the insert of a discount are one atomic step: discounts
\* that fit one by one but not together never all commit, neither against a
\* task nor directly against a pallet.
C6_DescuentosCaben ==
    /\ \A t \in db.TareasDescuento : DescontadoEnTarea(t) <= t.CantidadSolicitada
    /\ \A pe \in db.PalletsEntrada : DescontadoDirectamente(pe) <= pe.Cantidad

\* --------------------------------------------------------------------
\* C7: once the concurrent requests have ended, the store is one that the
\* same requests served one after another produce.  Served one after another
\* they keep, on every pallet and task: requested by tasks <= received,
\* discounted <= requested, and one TOMA_POSESION per release, per discount
\* and per lock still held.
ResultadoSecuencial ==
    /\ \A pe \in db.PalletsEntrada :
          SumOver(TareasDe(pe), "CantidadSolicitada") <= pe.Cantidad
    /\ \A t \in db.TareasDescuento :
          /\ DescontadoEnTarea(t) <= t.CantidadSolicitada
          /\ MovimientosDe(db, "TOMA_POSESION", t.ID)
               = MovimientosDe(db, "DESBLOQUEO_TAREA", t.ID)
                 + MovimientosDe(db, "DESCUENTO", t.ID)
                 + (IF t.EstadoProceso = "EnProceso" THEN 1 ELSE 0)

C7_Serializable == Quiescent => ResultadoSecuencial

\* --------------------------------------------------------------------
\* C8: a claim of a task that another user holds is answered 409 and writes
\* nothing: the task stays EnProceso, held by the first user.
C8_TomaAjenaRechazada ==
    [][\A t \in db.TareasDescuento :
          (/\ last'.op = "bloquear" /\ last'.id = t.ID
           /\ t.EstadoProceso = "EnProceso"
           /\ t.UsuarioProcesando # last'.usuario)
              => (last'.status = 409 /\ db' = db)]_vars

\* A claim by B was answered 409 and the task is held by another user.
C8_Rechazada ==
    /\ last.op = "bloquear" /\ last.status = 409
    /\ \E t \in db.TareasDescuento :
          /\ t.ID = last.id /\ t.EstadoProceso = "EnProceso"
          /\ t.UsuarioProcesando \in Usuarios \ {last.usuario}

\* --------------------------------------------------------------------
\* C9: a claim by the user who already holds the task is answered 200, leaves
\* the task held by that user and records no further TOMA_POSESION; the claim
\* of a Libre task records exactly one.
C9_TomaRepetida ==
    [][\A t \in db.TareasDescuento :
          (last'.op = "bloquear" /\ last'.id = t.ID) =>
              /\ (t.EstadoProceso = "EnProceso" /\ t.UsuarioProcesando = last'.usuario) =>
                    /\ last'.status = 200
                    /\ \E t2 \in db'.TareasDescuento :
                          /\ t2.ID = t.ID /\ t2.EstadoProceso = "EnProceso"
                          /\ t2.UsuarioProcesando = last'.usuario
                    /\ MovimientosDe(db', "TOMA_POSESION", t.ID)
                         = MovimientosDe(db, "TOMA_POSESION", t.ID)
              /\ t.EstadoProceso = "Libre" =>
                    /\ last'.status = 200
                    /\ MovimientosDe(db', "TOMA_POSESION", t.ID)
                         = MovimientosDe(db, "TOMA_POSESION", t.ID) + 1]_vars

\* The holder claimed again: the handler read EnProceso, answered 200, and the
\* task has the one TOMA_POSESION of the first claim.
C9_DosVeces ==
    /\ last.op = "bloquear" /\ last.status = 200 /\ last.estadoProceso = "EnProceso"
    /\ \E t \in db.TareasDescuento :
          /\ t.ID = last.id /\ t.EstadoProceso = "EnProceso"
          /\ t.UsuarioProcesando = last.usuario
          /\ MovimientosDe(db, "TOMA_POSESION", t.ID) = 1

\* --------------------------------------------------------------------
\* C10: the latest request discounted 40 from the only task, of 40, of a
\* pallet of 100.
C10_Caso(pe, t) ==
    /\ pe.Cantidad = 100 /\ TareasDe(pe) = {t} /\ t.CantidadSolicitada = 40
    /\ last.op = "descontar" /\ last.id = t.ID /\ last.cantidad = 40

C12_Base(pe, t) ==
    /\ db.PalletsEntrada = {pe} /\ pe.Cantidad = 200
    /\ DescontadoDirectamente(pe) = 50
    /\ db.TareasDescuento = {t} /\ t.PalletEntradaID = pe.ID
    /\ t.CantidadSolicitada = 100

C13_CrearTarea ==
    [][\A pe \in db.PalletsEntrada :
          (last'.op = "tareas" /\ last'.id = pe.ID) =>
              LET available ==
                      pe.Cantidad - SumOver({t \in TareasDe(pe) : t.Estado # "Cancelada"},
                                            "CantidadSolicitada")
                  nuevas == db'.TareasDescuento \ db.TareasDescuento
              IN  /\ last'.status = 201
                        <=> (0 < last'.cantidad /\ last'.cantidad <= available)
                  /\ last'.status = 201 =>
                        /\ db.TareasDescuento \subseteq db'.TareasDescuento
                        /\ Cardinality(nuevas) = 1
                        /\ \A t \in nuevas :
                              /\ t.PalletEntradaID = pe.ID
                              /\ t.CantidadSolicitada = last'.cantidad
                              /\ t.Estado = "Pendiente"
                              /\ t.EstadoProceso = "Libre"
                              /\ t.UsuarioProcesando = NoUsuario
                              /\ MovimientosDe(db', "CREACION_TAREA", t.ID) = 1
                        /\ db.Movimientos \sqsubseteq db'.Movimientos
                        /\ BagCardinality(db'.Movimientos) = BagCardinality(db.Movimientos) + 1
                        /\ db'.PalletsEntrada = db.PalletsEntrada
                        /\ db'.PalletsDescontados = db.PalletsDescontados
                  /\ last'.status # 201 => db' = db]_vars

\* A second task was created on a pallet, within what the first one left.
C13_Creada ==
    /\ last.op = "tareas" /\ last.status = 201
    /\ \E pe \in db.PalletsEntrada :
          /\ pe.ID = last.id
          /\ Cardinality(TareasDe(pe)) = 2
          /\ SumOver(TareasDe(pe), "CantidadSolicitada") = pe.Cantidad

\* --------------------------------------------------------------------
\* C14: a discount of a positive quantity against a task is written only
\* when the task is Pendiente and EnProceso for the user who asks; when the
\* task is not EnProceso the answer is 400, when another user holds it the
\* answer is 403, and in both cases nothing is written.
C14_DescuentoSoloDelPoseedor ==
    [][\A t \in db.TareasDescuento :
          (last'.op = "descontar" /\ last'.id = t.ID /\ last'.cantidad > 0) =>
              /\ t.EstadoProceso # "EnProceso" =>
                    (last'.status = 400 /\ db' = db)
              /\ (t.EstadoProceso = "EnProceso" /\ t.UsuarioProcesando # last'.usuario) =>
                    (last'.status = 403 /\ db' = db)
              /\ db'.PalletsDescontados # db.PalletsDescontados =>
                    /\ t.Estado = "Pendiente"
                    /\ t.EstadoProceso = "EnProceso"
                    /\ t.UsuarioProcesando = last'.usuario]_vars

\* A discount asked by a user who does not hold the task was answered 403.
C14_Prohibido ==
    /\ last.op = "descontar" /\ last.status = 403 /\ last.cantidad > 0
    /\ \E t \in db.TareasDescuento :
          /\ t.ID = last.id /\ t.EstadoProceso = "EnProceso"
          /\ t.UsuarioProcesando \in Usuarios \ {last.usuario}

\* --------------------------------------------------------------------
\* C15: a discount of 0 < quantity <= pending by the holder of the task is
\* answered 200, inserts one discount and one DESCUENTO movement that refers
\* to the task and to that discount, and leaves the task Libre with no
\* holder, Completada exactly when quantity = pending and Pendiente
\* otherwise; a quantity > pending is answered 400 and changes nothing.
C15_DescontarDeTarea ==
    [][\A t \in db.TareasDescuento :
          (/\ last'.op = "descontar" /\ last'.id = t.ID /\ last'.cantidad > 0
           /\ t.EstadoProceso = "EnProceso" /\ t.UsuarioProcesando = last'.usuario) =>
              LET q == last'.cantidad
                  pending == CantidadPendiente(t)
                  nuevos == db'.PalletsDescontados \ db.PalletsDescontados
              IN  /\ q > pending => (last'.status = 400 /\ db' = db)
                  /\ q <= pending =>
                        /\ last'.status = 200
                        /\ db.PalletsDescontados \subseteq db'.PalletsDescontados
                        /\ Cardinality(nuevos) = 1
                        /\ \A x \in nuevos :
                              /\ x.TareaDescuentoID = t.ID
                              /\ x.CantidadDescontada = q
                              /\ BagCount(db'.Movimientos,
                                          LAMBDA m : /\ m.TipoMovimiento = "DESCUENTO"
                                                     /\ m.TareaDescuentoID = t.ID
                                                     /\ m.PalletsDescontadosID = x.ID) = 1
                        /\ db.Movimientos \sqsubseteq db'.Movimientos
                        /\ BagCardinality(db'.Movimientos) = BagCardinality(db.Movimientos) + 1
                        /\ db'.TareasDescuento =
                              (db.TareasDescuento \ {t}) \cup
                                  {[t EXCEPT !.Estado = IF q = pending THEN "Completada"
                                                        ELSE "Pendiente",
                                             !.EstadoProceso = "Libre",
                                             !.UsuarioProcesando = NoUsuario]}
                        /\ db'.PalletsEntrada = db.PalletsEntrada]_vars

\* A partial discount was answered 200: the task is Pendiente and Libre, with
\* less discounted than requested.
C15_Parcial ==
    /\ last.op = "descontar" /\ last.status = 200
    /\ \E t \in db.TareasDescuento :
          /\ t.ID = last.id /\ t.Estado = "Pendiente" /\ t.EstadoProceso = "Libre"
          /\ DescontadoEnTarea(t) = last.cantidad
          /\ last.cantidad < t.CantidadSolicitada

\* --------------------------------------------------------------------
\* C16: a direct discount on an existing pallet is answered 200 exactly when
\* 0 < quantity <= received - discounted directly - requested by the pallet's
\* Pendiente tasks; it then inserts one discount with no task and one
\* DESCUENTO_DIRECTO movement; otherwise it is answered 400 and writes nothing.
C16_DescuentoDirecto ==
    [][\A pe \in db.PalletsEntrada :
          (last'.op = "directo" /\ last'.id = pe.ID) =>
              LET q == last'.cantidad
                  available ==
                      pe.Cantidad - DescontadoDirectamente(pe) - EnTareasPendientes(pe)
                  nuevos == db'.PalletsDescontados \ db.PalletsDescontados
              IN  /\ last'.status = 200 <=> (0 < q /\ q <= available)
                  /\ last'.status = 200 =>
                        /\ db.PalletsDescontados \subseteq db'.PalletsDescontados
                        /\ Cardinality(nuevos) = 1
                        /\ \A x \in nuevos :
                              /\ x.TareaDescuentoID = NULL
                              /\ x.PalletEntradaID = pe.ID
                              /\ x.CantidadDescontada = q
                              /\ BagCount(db'.Movimientos,
                                          LAMBDA m : /\ m.TipoMovimiento = "DESCUENTO_DIRECTO"
                                                     /\ m.PalletEntradaID = pe.ID
                                                     /\ m.PalletsDescontadosID = x.ID) = 1
                        /\ db.Movimientos \sqsubseteq db'.Movimientos
                        /\ BagCardinality(db'.Movimientos) = BagCardinality(db.Movimientos) + 1
                        /\ db'.TareasDescuento = db.TareasDescuento
                        /\ db'.PalletsEntrada = db.PalletsEntrada
                  /\ last'.status # 200 => (last'.status = 400 /\ db' = db)]_vars

\* A direct discount within the quantity received was answered 400 because of
\* what a Pendiente task of the pallet requests.
C16_RechazadoPorTareas ==
    /\ last.op = "directo" /\ last.status = 400 /\ last.cantidad > 0
    /\ \E pe \in db.PalletsEntrada :
          /\ pe.ID = last.id
          /\ EnTareasPendientes(pe) > 0
          /\ last.cantidad <= pe.Cantidad - DescontadoDirectamente(pe)
          /\ last.cantidad > pe.Cantidad - DescontadoDirectamente(pe) - EnTareasPendientes(pe)

\* --------------------------------------------------------------------
\* C17: a release is answered 200 only when the task is EnProceso for the
\* user who asks; it then leaves the task Libre with no holder and records
\* one DESBLOQUEO_TAREA movement.  When the task is not EnProceso the answer
\* is 400, when another user holds it the answer is 403, and in both cases
\* the lock, the holder and the movements are as they were.
C17_Desbloquear ==
    [][\A t \in db.TareasDescuento :
          (last'.op = "desbloquear" /\ last'.id = t.ID) =>
              /\ t.EstadoProceso # "EnProceso" =>
                    (last'.status = 400 /\ db' = db)
              /\ (t.EstadoProceso = "EnProceso" /\ t.UsuarioProcesando # last'.usuario) =>
                    (last'.status = 403 /\ db' = db)
              /\ (t.EstadoProceso = "EnProceso" /\ t.UsuarioProcesando = last'.usuario) =>
                    /\ last'.status = 200
                    /\ db'.TareasDescuento =
                          (db.TareasDescuento \ {t}) \cup
                              {[t EXCEPT !.EstadoProceso = "Libre",
                                         !.UsuarioProcesando = NoUsuario]}
                    /\ db.Movimientos \sqsubseteq db'.Movimientos
                    /\ BagCardinality(db'.Movimientos) = BagCardinality(db.Movimientos) + 1
                    /\ MovimientosDe(db', "DESBLOQUEO_TAREA", t.ID)
                         = MovimientosDe(db, "DESBLOQUEO_TAREA", t.ID) + 1
                    /\ db'.PalletsDescontados = db.PalletsDescontados
                    /\ db'.PalletsEntrada = db.PalletsEntrada]_vars

\* A release asked by a user who does not hold the task was answered 403.
C17_Prohibido ==
    /\ last.op = "desbloquear" /\ last.status = 403
    /\ \E t \in db.TareasDescuento :
          /\ t.ID = last.id /\ t.EstadoProceso = "EnProceso"
          /\ t.UsuarioProcesando \in Usuarios \ {last.usuario}

\* --------------------------------------------------------------------
\* C18: the cancellation of a Pendiente task is answered 200, keeps the task
\* stored with Estado Cancelada and records one CANCELACION_TAREA movement;
\* of a Completada or Cancelada task it is answered 400 and of a missing task
\* 404, and then nothing changes.
C18_Cancelar ==
    [][last'.op = "eliminar" =>
          /\ \A t \in db.TareasDescuento :
                last'.id = t.ID =>
                    /\ t.Estado = "Pendiente" =>
                          /\ last'.status = 200
                          /\ \E t2 \in db'.TareasDescuento :
                                t2.ID = t.ID /\ t2.Estado = "Cancelada"
                          /\ MovimientosDe(db', "CANCELACION_TAREA", t.ID)
                               = MovimientosDe(db, "CANCELACION_TAREA", t.ID) + 1
                    /\ t.Estado \in {"Completada", "Cancelada"} =>
                          (last'.status = 400 /\ db' = db)
          /\ (\A t \in db.TareasDescuento : t.ID # last'.id) =>
                (last'.status = 404 /\ db' = db)]_vars

\* --------------------------------------------------------------------
\* C19: the movements only grow: no intake, task creation, claim, release,
\* discount or cancellation removes or changes a movement that is recorded.
C19_MovimientosSoloCrecen ==
    [][db.Movimientos \sqsubseteq db'.Movimientos]_vars

\* --------------------------------------------------------------------
\* C20: a task that is Completada or Cancelada stays stored with that Estado,
\* and no further discount is recorded against it.
C20_EstadoTerminal ==
    [][\A t \in db.TareasDescuento :
          t.Estado \in {"Completada", "Cancelada"} =>
              /\ \E t2 \in db'.TareasDescuento : t2.ID = t.ID /\ t2.Estado = t.Estado
              /\ {x \in db'.PalletsDescontados : x.TareaDescuentoID = t.ID}
                   = {x \in db.PalletsDescontados : x.TareaDescuentoID = t.ID}]_vars

\* ------------------------------------------------------------------------
\* Each pallet has exactly one INGRESO movement that references it, with the
\* pallet's client and quantity, and every INGRESO movement references a
\* stored pallet.
C21_UnIngresoPorPallet(d) ==
    /\ \A pe \in d.PalletsEntrada :
          LET ingresos == BagWhere(d.Movimientos,
                                   LAMBDA m : /\ m.TipoMovimiento = "INGRESO"
                                              /\ m.PalletEntradaID = pe.ID)
          IN  /\ BagCardinality(ingresos) = 1
              /\ \A m \in BagToSet(ingresos) :
                    m.Cliente = pe.Cliente /\ m.Cantidad = pe.Cantidad
    /\ \A m \in BagToSet(d.Movimientos) :
          m.TipoMovimiento = "INGRESO" =>
              \E pe \in d.PalletsEntrada : pe.ID = m.PalletEntradaID

\* C21: the pallet and its INGRESO movement are stored together or not at all.
\* Every committed state has exactly one matching INGRESO movement per pallet,
\* and an intake whose statement failed added neither a pallet nor a movement.
C21_IngresoAtomico ==
    [][/\ C21_UnIngresoPorPallet(db')
       /\ (last'.op = "pendientes" /\ last'.status = 500) =>
              /\ db'.PalletsEntrada = db.PalletsEntrada
              /\ db'.Movimientos = db.Movimientos]_vars

\* An intake failed at its second statement, after the pallet was inserted:
\* the IDENTITY value is consumed and no pallet is stored.
C21_FallaTrasInsertar ==
    /\ last.op = "pendientes" /\ last.status = 500
    /\ db.identity.PalletsEntrada = 2
    /\ db.PalletsEntrada = {}

\* C22: an intake with a blank client, a blank user or a quantity that is not
\* positive is answered 400 before the transaction begins: the store, its
\* IDENTITY counters included, is as it was.
C22_IngresoInvalido ==
    [][(/\ last'.op = "pendientes"
        /\ \/ last'.cliente \in {"", " "}
           \/ last'.usuario \in {"", " "}
           \/ last'.cantidad <= 0) =>
            (last'.status = 400 /\ db' = db)]_vars

\* An intake of 50 by A with a client of one space was refused while no pallet
\* was stored.
C22_ClienteEnBlanco ==
    /\ last.op = "pendientes" /\ last.cliente = " "
    /\ last.usuario = "A" /\ last.cantidad = 50
    /\ last.status = 400
    /\ db = EmptyDb

\* C23: a request that is answered with an error (400, 403, 404, 409 or, after
\* a failed statement, 500) leaves the four tables as they were when it began.
C23_ErrorSinEscrituras ==
    [][last'.status \in {400, 403, 404, 409, 500} =>
          /\ db'.PalletsEntrada = db.PalletsEntrada
          /\ db'.TareasDescuento = db.TareasDescuento
          /\ db'.PalletsDescontados = db.PalletsDescontados
          /\ db'.Movimientos = db.Movimientos]_vars

\* A discount by the holder failed at its movement, after the discount row
\* was inserted and the task updated: the IDENTITY value is consumed, no
\* discount is stored and the task is still held.
C23_FallaTrasEscribir ==
    /\ last.op = "descontar" /\ last.status = 500
    /\ db.identity.PalletsDescontados = 2
    /\ db.PalletsDescontados = {}
    /\ \E t \in db.TareasDescuento :
          /\ t.ID = last.id
          /\ t.Estado = "Pendiente"
          /\ t.EstadoProceso = "EnProceso"
          /\ t.UsuarioProcesando = last.usuario

\* C24: bloquear, desbloquear and descontar-pallet with a missing or blank
\* usuario are answered 400 before the transaction begins: the store is as it
\* was, whatever the task and whichever statement would have failed.
C24_SinUsuario ==
    [][(/\ last'.op \in {"bloquear", "desbloquear", "descontar"}
        /\ last'.usuario \in {"", " "}) =>
            (last'.status = 400 /\ db' = db)]_vars

\* A claim with no usuario was refused on a stored task that was free.
C24_TomaSinUsuario ==
    /\ last.op = "bloquear" /\ last.usuario = "" /\ last.status = 400
    /\ \E t \in db.TareasDescuento :
          /\ t.ID = last.id
          /\ t.Estado = "Pendiente"
          /\ t.EstadoProceso = "Libre"
          /\ t.UsuarioProcesando = NoUsuario

\* ------------------------------------------------------------------------
\* The sum of the direct discounts of the store.
DescuentosDirectos ==
    SumOver({x \in db.PalletsDescontados : x.TareaDescuentoID = NULL}, "CantidadDescontada")

\* C25, as the specification states it: pendientes is the sum of the pallets
\* minus the direct discounts minus the requested quantities of the tasks in
\* Estado Pendiente.
C25_PendientesMenosTareasPendientes ==
    GetStatus(db).pendientes =
        SumOver(db.PalletsEntrada, "Cantidad") - DescuentosDirectos
            - SumOver({t \in db.TareasDescuento : t.Estado = "Pendiente"},
                      "CantidadSolicitada")

\* C25, amended: pendientes is the sum of the pallets minus the direct
\* discounts minus the requested quantities of all the stored tasks, whatever
\* their Estado.
C25_PendientesMenosTodasLasTareas ==
    GetStatus(db).pendientes =
        SumOver(db.PalletsEntrada, "Cantidad") - DescuentosDirectos
            - SumOver(db.TareasDescuento, "CantidadSolicitada")

\* A task is Completada and a direct discount is stored: the report subtracts
\* the completed task too.
C25_ConTareaCompletada ==
    /\ \E t \in db.TareasDescuento : t.Estado = "Completada"
    /\ DescuentosDirectos > 0
    /\ GetStatus(db).pendientes <
          SumOver(db.PalletsEntrada, "Cantidad") - DescuentosDirectos
              - SumOver({t \in db.TareasDescuento : t.Estado = "Pendiente"},
                        "CantidadSolicitada")

\* C26: descargados is the sum of the direct discounts plus the sum of the
\* discounts recorded against the tasks in Estado Completada, and cancelados
\* is the sum of the requested quantities of the tasks in Estado Cancelada.
C26_DescargadosYCancelados ==
    /\ GetStatus(db).descargados =
          DescuentosDirectos
              + SumOver({x \in db.PalletsDescontados :
                            \E t \in db.TareasDescuento :
                                t.ID = x.TareaDescuentoID /\ t.Estado = "Completada"},
                        "CantidadDescontada")
    /\ GetStatus(db).cancelados =
          SumOver({t \in db.TareasDescuento : t.Estado = "Cancelada"}, "CantidadSolicitada")

\* C27: lastAction describes the most recent of the stored intakes and the
\* stored discounts of either kind: that discount when a discount is the most
\* recent, that intake otherwise.
C27_UltimaAccion ==
    LET ingresos == db.PalletsEntrada
        descuentos == db.PalletsDescontados
        ingreso == CHOOSE x \in ingresos :
                      \A y \in ingresos : y.FechaHoraIngreso <= x.FechaHoraIngreso
        descuento == CHOOSE x \in descuentos :
                        \A y \in descuentos : y.FechaHoraDescuento <= x.FechaHoraDescuento
    IN  /\ (/\ descuentos # {}
            /\ \A y \in ingresos : y.FechaHoraIngreso < descuento.FechaHoraDescuento) =>
               GetStatus(db).lastAction =
                   <<"Descontado", descuento.CantidadDescontada, descuento.Cliente>>
        /\ (/\ ingresos # {}
            /\ \A y \in descuentos : y.FechaHoraDescuento < ingreso.FechaHoraIngreso) =>
               GetStatus(db).lastAction = <<"Ingreso", ingreso.Cliente, ingreso.Cantidad>>

\* C28: for every stored task, EstadoProceso is 'Libre' exactly when
\* UsuarioProcesando is NULL and 'EnProceso' exactly when UsuarioProcesando is
\* a user's name that is not blank.
C28_PoseedorSegunEstado ==
    \A t \in db.TareasDescuento :
        /\ t.EstadoProceso \in {"Libre", "EnProceso"}
        /\ t.EstadoProceso = "Libre" <=> t.UsuarioProcesando = NoUsuario
        /\ t.EstadoProceso = "EnProceso" <=>
              (t.UsuarioProcesando # NoUsuario /\ t.UsuarioProcesando \notin {"", " "})

\* A task that was released is held again, by B.
C28_TomadaYLiberada ==
    \E t \in db.TareasDescuento :
        /\ t.EstadoProceso = "EnProceso" /\ t.UsuarioProcesando = "B"
        /\ MovimientosDe(db, "DESBLOQUEO_TAREA", t.ID) > 0

\* C29: every task in Estado Completada is 'Libre' with no UsuarioProcesando:
\* a claim on a completed task does not take it.
C29_CompletadaLibre ==
    \A t \in db.TareasDescuento :
        t.Estado = "Completada" =>
            (t.EstadoProceso = "Libre" /\ t.UsuarioProcesando = NoUsuario)

\* C30: with one request served at a time, for every stored task the number
\* of its TOMA_POSESION movements is the number of its DESBLOQUEO_TAREA
\* movements plus the number of its DESCUENTO movements, plus one when the
\* task is 'EnProceso'.
C30_TomasContadas ==
    \A t \in db.TareasDescuento :
        MovimientosDe(db, "TOMA_POSESION", t.ID) =
            MovimientosDe(db, "DESBLOQUEO_TAREA", t.ID)
                + MovimientosDe(db, "DESCUENTO", t.ID)
                + (IF t.EstadoProceso = "EnProceso" THEN 1 ELSE 0)

\* A task was taken, discounted in part and taken again.
C30_TomadaDosVeces ==
    \E t \in db.TareasDescuento :
        /\ t.EstadoProceso = "EnProceso"
        /\ MovimientosDe(db, "TOMA_POSESION", t.ID) = 2
        /\ MovimientosDe(db, "DESCUENTO", t.ID) = 1
        /\ t.Estado = "Pendiente"

\* ------------------------------------------------------------------------
\* C31: in every committed state each stored task has exactly one
\* CREACION_TAREA movement, each stored discount of a task exactly one
\* DESCUENTO movement that references it and its task, each stored direct
\* discount exactly one DESCUENTO_DIRECTO movement, and every task or
\* discount a movement references is stored.
C31_MovimientosSegunFilas ==
    /\ \A t \in db.TareasDescuento :
          MovimientosDe(db, "CREACION_TAREA", t.ID) = 1
    /\ \A x \in db.PalletsDescontados :
          IF x.TareaDescuentoID # NULL
          THEN BagCount(db.Movimientos,
                        LAMBDA m : /\ m.TipoMovimiento = "DESCUENTO"
                                   /\ m.PalletsDescontadosID = x.ID
                                   /\ m.TareaDescuentoID = x.TareaDescuentoID) = 1
          ELSE BagCount(db.Movimientos,
                        LAMBDA m : /\ m.TipoMovimiento = "DESCUENTO_DIRECTO"
                                   /\ m.PalletsDescontadosID = x.ID) = 1
    /\ \A m \in BagToSet(db.Movimientos) :
          /\ m.TareaDescuentoID # NULL =>
                \E t \in db.TareasDescuento : t.ID = m.TareaDescuentoID
          /\ m.PalletsDescontadosID # NULL =>
                \E x \in db.PalletsDescontados : x.ID = m.PalletsDescontadosID

\* C32: the delete of a task in Estado Pendiente, served alone, answers 200
\* and removes the task, its discounts and the movements that reference it;
\* the pallets, the other tasks, the other discounts and the other movements
\* stay, and what the pallet has available for new tasks rises by the whole
\* CantidadSolicitada of the task.
C32_EliminarPendiente ==
    [][\A t \in db.TareasDescuento :
          (last'.op = "eliminar" /\ last'.id = t.ID /\ t.Estado = "Pendiente") =>
              /\ last'.status = 200
              /\ db'.TareasDescuento = db.TareasDescuento \ {t}
              /\ db'.PalletsDescontados =
                    {x \in db.PalletsDescontados : x.TareaDescuentoID # t.ID}
              /\ db'.Movimientos =
                    BagWhere(db.Movimientos, LAMBDA m : m.TareaDescuentoID # t.ID)
              /\ db'.PalletsEntrada = db.PalletsEntrada
              /\ \A pe \in db.PalletsEntrada :
                    pe.ID = t.PalletEntradaID =>
                        pe.Cantidad
                            - SumOver({u \in db'.TareasDescuento : u.PalletEntradaID = pe.ID},
                                      "CantidadSolicitada")
                        = pe.Cantidad
                            - SumOver({u \in db.TareasDescuento : u.PalletEntradaID = pe.ID},
                                      "CantidadSolicitada")
                            + t.CantidadSolicitada]_vars

\* A task that had a discount was deleted: its discount is gone, and another
\* task is stored with its CREACION_TAREA movement.
C32_EliminadaConDescuento ==
    /\ last.op = "eliminar" /\ last.status = 200
    /\ db.identity.PalletsDescontados = 2
    /\ db.PalletsDescontados = {}
    /\ \E u \in db.TareasDescuento :
          u.ID # last.id /\ MovimientosDe(db, "CREACION_TAREA", u.ID) = 1

\* C33: the delete of a Pendiente task that is 'EnProceso', by a request that
\* names no user, answers 200 and removes the task, whoever holds it; a
\* discount or a release on a task that is not stored answers 404 and changes
\* nothing.
C33_EliminarTomada ==
    [][/\ \A t \in db.TareasDescuento :
             (/\ last'.op = "eliminar" /\ last'.id = t.ID
              /\ t.Estado = "Pendiente" /\ t.EstadoProceso = "EnProceso") =>
                 /\ last'.usuario = NoUsuario
                 /\ last'.status = 200
                 /\ \A u \in db'.TareasDescuento : u.ID # t.ID
       /\ (/\ \/ last'.op = "desbloquear"
              \/ last'.op = "descontar" /\ last'.cantidad > 0
           /\ \A t \in db.TareasDescuento : t.ID # last'.id) =>
              (last'.status = 404 /\ db' = db)]_vars

\* A discount by A on a task that was created and is no longer stored was
\* answered 404.
C33_DescuentoSinTarea ==
    /\ last.op = "descontar" /\ last.usuario = "A" /\ last.cantidad > 0
    /\ last.status = 404
    /\ last.id < db.identity.TareasDescuento
    /\ \A t \in db.TareasDescuento : t.ID # last.id

\* C34: every request that was served got a response: its handler ended by
\* sending one HTTP status, on the failure paths too.
C34_SiempreResponde ==
    last.op # "idle" => last.status \in {200, 201, 400, 403, 404, 409, 500}

\* C35: with a delete and a discount of the same task interleaved, no step
\* removes a task that is Completada, and no committed state holds a discount
\* or a DESCUENTO movement of a task that is not stored.
C35_EliminarYDescontar ==
    [][/\ \A t \in db.TareasDescuento :
             t.Estado = "Completada" => \E u \in db'.TareasDescuento : u.ID = t.ID
       /\ \A x \in db'.PalletsDescontados :
             x.TareaDescuentoID # NULL =>
                 \E u \in db'.TareasDescuento : u.ID = x.TareaDescuentoID
       /\ \A m \in BagToSet(db'.Movimientos) :
             m.TipoMovimiento = "DESCUENTO" =>
                 \E u \in db'.TareasDescuento : u.ID = m.TareaDescuentoID]_vars

\* C36: the server listens only once the pool is connected and the tables
\* were created; isDbConnected is true only after a successful connect; a
\* request served while the pool is missing or isDbConnected is false is
\* answered 503 with the store untouched, and 503 is answered in no other
\* case.
C36_ArranqueOrdenado ==
    [][/\ srv'.pc = "listening" =>
             (srv'.pool /\ srv'.isDbConnected /\ srv'.tablas)
       /\ srv'.isDbConnected => srv'.pool
       /\ (srv' = srv /\ (~srv.pool \/ ~srv.isDbConnected)) =>
             (last'.status = 503 /\ db' = db)
       /\ (srv' = srv /\ last'.status = 503 /\ last # last') =>
             (~srv.pool \/ ~srv.isDbConnected)]_vars

\* The server listens and has served an intake.
C36_Escuchando ==
    /\ srv.pc = "listening"
    /\ srv.pool /\ srv.isDbConnected /\ srv.tablas
    /\ last.op = "pendientes" /\ last.status = 201

====
